---- MODULE Spec2Model ----
(***************************************************************************)
(* Model of the TenderScrape job dispatcher (job_dispatcher.py) and of the *)
(* delivery ledger (tender_utils.EmailTracker).                            *)
(*                                                                         *)
(* Several dispatcher invocations (cron starts one per minute) run against *)
(* one file system: the lock file, the record cache, the ledger, and per   *)
(* subscription the seen-set, the status file and the history log.         *)
(* acquire_lock and release_lock are split at the points where another    *)
(* invocation can see a difference (open, flock, unlock, exists, unlink);  *)
(* process_job runs as one step per subscription.                          *)
(*                                                                         *)
(* UtilSpec applies the utilities of tender_utils.py on their own, outside *)
(* the dispatcher: is_tender_active and the selection loop on one record,  *)
(* and mark_tenders_sent calls on one EmailTracker instance.               *)
(***************************************************************************)
EXTENDS Integers, Sequences, FiniteSets, TLC

\* ------------------------------------------------------------------ bounds

\* Number of dispatcher invocations started over the whole behaviour.
MaxRuns == 3
\* Number of times the harvester rewrites the record cache.
MaxHarvests == 1

\* ------------------------------------------------------------- the universe

Procs == {"p1", "p2"}
NoProc == "none"

Emails == {"a@x.com", "b@x.com", "old@x.com", "repair@needed.com"}

\* Strings that the code inspects character by character (category and class
\* names) are sequences of one-character strings; LowerStr is str.lower().
Lower(c) ==
    IF c = "W" THEN "w" ELSE IF c = "G" THEN "g" ELSE IF c = "U" THEN "u"
    ELSE IF c = "O" THEN "o" ELSE IF c = "S" THEN "s" ELSE c
LowerStr(s) == [i \in 1..Len(s) |-> Lower(s[i])]

\* Python's `a in b` on strings: a is a contiguous substring of b.
IsSubstr(a, b) ==
    \E k \in 0..(Len(b) - Len(a)) : \A i \in 1..Len(a) : b[k + i] = a[i]

\* The values a category field of a record can hold in the cache (JSON): a
\* string, null, a number (val is its text), or an object, of which only the
\* title matters.
Str(s) == [type |-> "str", val |-> s]
Null == [type |-> "null", val |-> <<>>]
Num(digits) == [type |-> "int", val |-> digits]
Dict(has_title, title) ==
    [type |-> "dict", val |-> <<>>, has_title |-> has_title, title |-> title]

\* str(v) inside an f-string.
PyStr(v) == IF v.type = "null" THEN <<"N", "o", "n", "e">> ELSE v.val

\* The clock counts half days: even values are midnights, and the reference
\* time of a call (datetime.now()) is the middle of day 0.
Now == 1

\* A close_at string, by the shape that is_tender_active looks at, and the
\* time it denotes when it has the format its shape promises:
\*   "empty"          ""
\*   "iso_zone"       ISO-8601 with a zone, "2025-07-01T10:00:00Z" or "...+03:00"
\*   "iso"            ISO-8601 without a zone, "2025-07-01T10:00:00"
\*   "datetime"       "2025-07-01 10:00:00"
\*   "date"           "2025-07-01" (at is a midnight)
\*   "garbage_T"      a string with a "T" that is not ISO-8601, "TBD"
\*   "garbage_space"  a string with a space that is not a date, "next week"
\*   "garbage"        any other string, "soon"
CloseAt(kind, at) == [kind |-> kind, at |-> at]
EmptyStr == CloseAt("empty", 0)

\* Tender records of the cache.
\* T1 has the nested category object and closes tomorrow, T2 a legacy flat
\* field and no close date, T3 closed yesterday.
T1 == [id |-> "1", procurement_category |-> Dict(TRUE, Str(<<"W", "o">>)),
       close_at |-> CloseAt("date", 2)]
T2 == [id |-> "2", category |-> Str(<<"G", "o">>)]
T3 == [id |-> "3", category_name |-> Str(<<"W", "o">>), close_at |-> CloseAt("date", -2)]
Tenders == {T1, T2, T3}
TenderIds == {t.id : t \in Tenders}

\* The cache file is missing, holds an object with a list of records under
\* "data", or holds something json.load or cache.get fails on.
NoCache == [exists |-> FALSE, corrupt |-> FALSE, data |-> {}]
Cache(d) == [exists |-> TRUE, corrupt |-> FALSE, data |-> d]
CorruptCache == [exists |-> TRUE, corrupt |-> TRUE, data |-> {}]
CacheChoices == {Cache({}), Cache({T1, T2}), Cache({T1, T2, T3})}

\* Subscription files under configs/.
Jobs == {"j1", "j2"}
JobConfig(j) ==
    IF j = "j1"
    THEN [id |-> "j1", classes |-> {}, recipients |-> <<"a@x.com">>,
          schedule |-> "*/5 * * * *"]
    ELSE [id |-> "j2", classes |-> {<<"w">>}, recipients |-> <<"a@x.com", "b@x.com">>,
          schedule |-> "*/5 * * * *"]

\* What a file under configs/ holds: a JSON object, something json.loads or
\* the field test raises on ("corrupt": text that is not JSON, null, a
\* number), or nothing because the file is gone.
NoJob == [none |-> TRUE]
ConfigObject(job) == [kind |-> "object", job |-> job]
ConfigCorrupt == [kind |-> "corrupt", job |-> NoJob]
ConfigAbsent == [kind |-> "absent", job |-> NoJob]

\* The subscriptions as deployed.
DeployedConfigs == [j \in Jobs |-> ConfigObject(JobConfig(j))]

\* Objects that lack a required field or have no recipient, and one whose
\* schedule is not a cron expression.
BadSchedule ==
    [id |-> "j1", classes |-> {}, recipients |-> <<"a@x.com">>, schedule |-> "every day"]
NoRecipients == [id |-> "j1", classes |-> {}, schedule |-> "*/5 * * * *"]
EmptyRecipients ==
    [id |-> "j2", classes |-> {<<"w">>}, recipients |-> <<>>, schedule |-> "*/5 * * * *"]
NoId == [classes |-> {<<"w">>}, recipients |-> <<"b@x.com">>, schedule |-> "*/5 * * * *"]
NoSchedule == [id |-> "j2", classes |-> {<<"w">>}, recipients |-> <<"b@x.com">>]
ConfigChoices ==
    {f \in [Jobs -> {ConfigObject(JobConfig("j1")), ConfigObject(JobConfig("j2")),
                     ConfigObject(BadSchedule), ConfigObject(NoRecipients),
                     ConfigObject(EmptyRecipients), ConfigObject(NoId),
                     ConfigObject(NoSchedule), ConfigCorrupt}] :
        /\ f["j1"] \in {ConfigObject(JobConfig("j1")), ConfigObject(BadSchedule),
                        ConfigObject(NoRecipients), ConfigCorrupt}
        /\ f["j2"] \in {ConfigObject(JobConfig("j2")), ConfigObject(EmptyRecipients),
                        ConfigObject(NoId), ConfigObject(NoSchedule), ConfigCorrupt}}

\* A seen-set file: a JSON list of identities, or text json.loads raises on.
\* A missing file reads as the empty list.
SeenFile(ids) == [valid |-> TRUE, ids |-> ids]
CorruptSeen == [valid |-> FALSE, ids |-> {}]

\* A ledger is the "recipients" mapping of email_tracking.json: a function
\* from the e-mails that have an entry to their sent_tenders.
EmptyLedger == [e \in {} |-> <<>>]
InitLedgers ==
    { EmptyLedger,
      [e \in {"a@x.com", "old@x.com"} |-> IF e = "a@x.com" THEN <<"1">> ELSE <<"3">>] }

\* What email_tracking.json can hold when an EmailTracker is constructed: no
\* file ("absent"), text that is not JSON ("invalid"), the object that save()
\* writes ("ledger"), or a JSON object without a "recipients" key
\* ("no_recipients", e.g. {}).
LedgerFile(kind, L) == [kind |-> kind, recipients |-> L]
LedgerFiles ==
    {LedgerFile("absent", EmptyLedger), LedgerFile("invalid", EmptyLedger),
     LedgerFile("no_recipients", EmptyLedger)}
    \cup {LedgerFile("ledger", L) : L \in InitLedgers}

\* _load_tracking_data: the empty ledger when the file is missing or json.load
\* raises, otherwise whatever object the file holds, with or without the key.
load_tracking_data(file) ==
    IF file.kind \in {"absent", "invalid"}
    THEN [has_recipients |-> TRUE, recipients |-> EmptyLedger]
    ELSE IF file.kind = "ledger"
    THEN [has_recipients |-> TRUE, recipients |-> file.recipients]
    ELSE [has_recipients |-> FALSE, recipients |-> EmptyLedger]

\* self.data["recipients"]: KeyError when the loaded object has no such key.
DataRecipients(data) == [raised |-> ~data.has_recipients, L |-> data.recipients]

\* new_recipient_mode of app_config.json; "absent" when the key is missing.
ConfigModes == {"absent", "new_only", "all_active"}

Range(s) == {s[i] : i \in 1..Len(s)}

\* ------------------------------------------------ tender_utils: classifier

Unknown == Str(<<"U">>)

\* f"Category #{tender['procurement_category_id']}".
CategoryNo(n) == Str(<<"#">> \o PyStr(n))

\* isinstance(v, dict).
IsDict(v) == v.type = "dict"

Has(t, f) == f \in DOMAIN t

\* get_tender_category returns what it finds: the title of a nested object
\* (.get("title", "Unknown"): "Unknown" only when the key is missing), else
\* the value of category_name, else of category, as they are, else the
\* placeholder built from procurement_category_id, else "Unknown".
get_tender_category(t) ==
    IF Has(t, "procurement_category") /\ IsDict(t.procurement_category)
    THEN IF t.procurement_category.has_title
         THEN t.procurement_category.title ELSE Unknown
    ELSE IF Has(t, "category_name") THEN t.category_name
    ELSE IF Has(t, "category") THEN t.category
    ELSE IF Has(t, "procurement_category_id") THEN CategoryNo(t.procurement_category_id)
    ELSE Unknown

\* "T" in close_at_str, " " in close_at_str.
HasT(close_at_str) == close_at_str.kind \in {"iso_zone", "iso", "garbage_T"}
HasSpace(close_at_str) == close_at_str.kind \in {"datetime", "garbage_space"}

\* The three parsing branches (lines 59-64): fromisoformat after replacing "Z"
\* by "+00:00", strptime with "%Y-%m-%d %H:%M:%S", strptime with "%Y-%m-%d".
\* A string that does not have the format of its branch raises ValueError; a
\* string with a zone yields an aware datetime, the others a naive one.
ParseCloseAt(close_at_str) ==
    LET ok == IF HasT(close_at_str) THEN close_at_str.kind \in {"iso_zone", "iso"}
              ELSE IF HasSpace(close_at_str) THEN close_at_str.kind = "datetime"
              ELSE close_at_str.kind = "date"
    IN  [raised |-> ~ok, aware |-> ok /\ close_at_str.kind = "iso_zone",
         at |-> close_at_str.at]

\* is_tender_active with a fail-closed except clause.
is_tender_active_FailClosed(t) ==
    LET close_at_str == IF Has(t, "close_at") THEN t.close_at ELSE EmptyStr
        close_date == ParseCloseAt(close_at_str)
    IN  IF close_at_str.kind = "empty" THEN TRUE
        ELSE IF close_date.raised THEN FALSE
        ELSE IF close_date.aware THEN TRUE
        ELSE close_date.at >= Now

\* reference_date is datetime.now(), a naive datetime: comparing an aware
\* close_date with it (line 66) raises TypeError inside the try block, and the
\* except clause (lines 67-68) answers True for ValueError and TypeError alike.
is_tender_active(t) ==
    LET close_at_str == IF Has(t, "close_at") THEN t.close_at ELSE EmptyStr
        close_date == ParseCloseAt(close_at_str)
    IN  IF close_at_str.kind = "empty" THEN TRUE
        ELSE IF close_date.raised THEN TRUE
        ELSE IF close_date.aware THEN TRUE
        ELSE close_date.at >= Now

\* The id field of a record holds a JSON token: "1", "2", "3" are ids, "0" is
\* the number zero, "null" is null, "" is the empty string. str() of the
\* value: null becomes "None".
PyStrId(raw) == IF raw = "null" THEN "None" ELSE raw

\* Truthiness of the raw value: zero, null and the empty string are falsy.
Truthy(raw) == raw \notin {"", "0", "null"}

\* t.get("id") in a condition.
HasTruthyId(t) == Has(t, "id") /\ Truthy(t.id)

\* str(tender.get("id", "")).
TenderId(t) == IF Has(t, "id") THEN PyStrId(t.id) ELSE ""

\* --------------------------------------------- tender_utils: EmailTracker

\* A ledger L is data["recipients"]: per e-mail the sent_tenders list of its
\* entry (first_seen and last_sent are timestamps that nothing reads back).

is_new_recipient(L, email) == email \notin DOMAIN L

\* set(self.data["recipients"].get(email, {}).get("sent_tenders", [])).
get_sent_tenders(L, email) == IF email \in DOMAIN L THEN Range(L[email]) ELSE {}

\* sorted(existing): the identities of a set as a list in ascending order.
IdOrder == <<"1", "2", "3">>
sorted(S) == SelectSeq(IdOrder, LAMBDA x : x \in S)

\* mark_tenders_sent that extends the stored list instead of merging sets.
mark_tenders_sent_Extend(L, email, tender_ids) ==
    [e \in DOMAIN L \cup {email} |->
        IF e = email THEN (IF email \in DOMAIN L THEN L[email] ELSE <<>>) \o tender_ids
        ELSE L[e]]

\* mark_tenders_sent that stores the new identities in place of the old ones.
mark_tenders_sent_Overwrite(L, email, tender_ids) ==
    [e \in DOMAIN L \cup {email} |->
        IF e = email THEN sorted(Range(tender_ids)) ELSE L[e]]

\* mark_tenders_sent(email, tender_ids): creates the entry when it is absent,
\* then existing = set(sent_tenders); existing.update(tender_ids);
\* sent_tenders = sorted(existing).
mark_tenders_sent(L, email, tender_ids) ==
    [e \in DOMAIN L \cup {email} |->
        IF e = email
        THEN LET existing == (IF email \in DOMAIN L THEN Range(L[email]) ELSE {})
                                 \cup Range(tender_ids)
             IN  sorted(existing)
        ELSE L[e]]

\* mark_tenders_sent for every e-mail of a list, in order.
RECURSIVE MarkAll(_, _, _)
MarkAll(L, recipients, tender_ids) ==
    IF recipients = <<>> THEN L
    ELSE MarkAll(mark_tenders_sent(L, Head(recipients), tender_ids),
                 Tail(recipients), tender_ids)

\* ------------------------------------------- job_dispatcher: pure helpers

\* The names bound in the namespace of job_dispatcher.py when it runs: its
\* imports (lines 21-33) and its own top-level definitions. load_app_config is
\* defined in dashboard_app.py only, and job_dispatcher.py does not import it.
ModuleNames ==
    { "os", "json", "dt", "pathlib", "logging", "sys", "time", "fcntl", "requests",
      "croniter_match", "get_tender_category", "get_tender_entity", "is_tender_active",
      "filter_active_tenders", "format_tender_email_line", "format_detailed_email_body",
      "EmailTracker", "load_email_config", "JobDispatcher", "main" }

\* Calling a global name that is not bound raises NameError.
NameDefined(name) == name \in ModuleNames

\* validate_job_config without the test that the recipients list is non-empty.
validate_job_config_FieldsOnly(job) ==
    {"id", "recipients", "schedule"} \subseteq DOMAIN job

validate_job_config(job) ==
    /\ {"id", "recipients", "schedule"} \subseteq DOMAIN job
    /\ job.recipients # <<>>

\* repair_data with an empty recipients list.
RepairData_NoRecipient(job_id) ==
    [id |-> job_id, classes |-> {}, recipients |-> <<>>,
     schedule |-> "*/30 * * * *", interval |-> "30min"]

\* repair_data of attempt_job_repair: the id is the stem of the file name.
RepairData(job_id) ==
    [id |-> job_id, classes |-> {}, recipients |-> <<"repair@needed.com">>,
     schedule |-> "*/30 * * * *", interval |-> "30min"]

\* attempt_job_repair: the file rewritten with repair_data, or removed when
\* writing it raises.
attempt_job_repair(config_file, write_ok) ==
    IF write_ok THEN ConfigObject(RepairData(config_file)) ELSE ConfigAbsent

\* load_job_configs over the files of configs/: the objects that pass
\* validate_job_config are the jobs; an object that does not pass is logged
\* and left as it is; a file whose reading or validation raises goes to
\* attempt_job_repair and is not among the jobs of this call.
load_job_configs(files, write_ok) ==
    [jobs |-> {j \in Jobs : files[j].kind = "object" /\ validate_job_config(files[j].job)},
     files |-> [j \in Jobs |->
                   IF files[j].kind = "corrupt"
                   THEN attempt_job_repair(j, write_ok[j]) ELSE files[j]]]

\* The outcomes of the repair writes a load_job_configs call can meet.
RepairOutcomes(files) == [{j \in Jobs : files[j].kind = "corrupt"} -> BOOLEAN]

\* croniter_match raises on a schedule that is not a cron expression.
CronValid(schedule) == schedule \in {"*/5 * * * *", "*/30 * * * *"}

\* is_job_due that lets a job run when its schedule cannot be evaluated.
is_job_due_FailOpen(job, matches) ==
    IF CronValid(job.schedule) THEN matches ELSE TRUE

\* is_job_due: whether the schedule matches the minute; False when
\* croniter_match raises (lines 182-184).
is_job_due(job, matches) ==
    IF CronValid(job.schedule) THEN matches ELSE FALSE

\* load_job_seen_cache: the identities in the file, the empty set when the
\* file is missing or json.loads raises.
load_job_seen_cache(file) == IF file.valid THEN file.ids ELSE {}

\* if not all_data, taking None for the empty list too.
NoDataAvailable_NoneOnly(loaded) == loaded.none

\* if not all_data (line 466): None or an empty list.
NoDataAvailable(loaded) == loaded.none \/ loaded.data = {}

\* category.lower() (line 232) is evaluated when there are allowed classes; on
\* a category that is not a string it raises AttributeError.
ClassFilterRaises(t, allowed_classes) ==
    allowed_classes # {} /\ get_tender_category(t).type # "str"

\* The class filter of filter_data_for_job (lines 229-236), where it does not
\* raise.
ClassMatches(t, allowed_classes) ==
    \/ allowed_classes = {}
    \/ \E c \in allowed_classes :
          IsSubstr(LowerStr(c), LowerStr(get_tender_category(t).val))

\* The loop over the records (lines 220-244) raises when the class filter
\* raises on a record that has an id.
SelectionLoopRaises(data, job) ==
    \E t \in data : TenderId(t) # "" /\ ClassFilterRaises(t, job.classes)

\* all_active_tenders and fresh_tenders of filter_data_for_job (lines 220-244).
AllActiveTenders(data, job) ==
    {t \in data : TenderId(t) # "" /\ ClassMatches(t, job.classes) /\ is_tender_active(t)}

FreshTenders(data, job, seen_ids) ==
    {t \in AllActiveTenders(data, job) : TenderId(t) \notin seen_ids}

\* unsent_to_new of filter_data_for_job (lines 249-257).
UnsentToNew(data, job, L) ==
    {t \in AllActiveTenders(data, job) :
        \E email \in Range(job.recipients) :
            /\ is_new_recipient(L, email)
            /\ TenderId(t) \notin get_sent_tenders(L, email)}

\* filter_data_for_job(data, job, seen_ids) with the ledger L of the tracker
\* and the new_recipient_mode of the configuration file. The call of
\* load_app_config (line 217) comes before any record is looked at.
filter_data_for_job(data, job, seen_ids, L, mode) ==
    LET has_new_recipients ==
            \E email \in Range(job.recipients) : is_new_recipient(L, email)
        send_all_active_to_new ==
            (IF mode = "absent" THEN "new_only" ELSE mode) = "all_active"
    IN  IF ~NameDefined("load_app_config") \/ SelectionLoopRaises(data, job)
        THEN [raised |-> TRUE, tenders |-> {}, is_catch_up |-> FALSE]
        ELSE IF has_new_recipients /\ send_all_active_to_new
        THEN [raised |-> FALSE, tenders |-> UnsentToNew(data, job, L), is_catch_up |-> TRUE]
        ELSE [raised |-> FALSE, tenders |-> FreshTenders(data, job, seen_ids),
              is_catch_up |-> FALSE]

\* What the notification sink answers: no API key configured, HTTP 200, another
\* status code, or an exception in the request (timeout).
SendOutcomes == {"no_key", "ok", "rejected", "exception"}

\* send_email: the ledger of the tracker afterwards and the returned flag.
\* Without an API key it returns False at once (lines 287-289). Otherwise the
\* body is built inside the try block by format_email_body, whose first
\* statement (line 266) calls load_app_config: the NameError is caught at line
\* 328 and send_email returns False before any request is made.
\* Line 317 keeps the ids of the records whose raw id is truthy.
send_email(job, tenders, L, outcome) ==
    IF outcome = "no_key"
    THEN [L |-> L, saved |-> FALSE, email_sent |-> FALSE]
    ELSE IF ~NameDefined("load_app_config")
    THEN [L |-> L, saved |-> FALSE, email_sent |-> FALSE]
    ELSE IF outcome = "ok"
    THEN [L |-> MarkAll(L, job.recipients,
                        sorted({TenderId(t) : t \in {u \in tenders : HasTruthyId(u)}})),
          saved |-> TRUE, email_sent |-> TRUE]
    ELSE [L |-> L, saved |-> FALSE, email_sent |-> FALSE]

\* all_current_ids of process_job (line 391).
AllCurrentIds(data) == {TenderId(t) : t \in {u \in data : HasTruthyId(u)}}

\* The files of a subscription, named after its id: seen/seen_<job_id>.json
\* (lines 188 and 200) and status/<job_id>.json (line 335).
seen_file(job_id) == job_id

\* Every subscription writing its status to the file of the first one.
status_file_Shared(job_id) == "j1"

status_file(job_id) == job_id

\* The status file is a key/value object, empty while the file is missing; a
\* file that is not JSON is CorruptStatus.
NoStatus == [k \in {} |-> ""]
CorruptStatus == [corrupt |-> TRUE]

\* update_job_status merges the new keys into the old content and writes the
\* file. On a file that is not JSON json.loads raises inside the try block:
\* the error is logged and the file stays as it is (lines 336-352).
update_job_status(old, new) ==
    IF old = CorruptStatus THEN old
    ELSE [k \in DOMAIN old \cup DOMAIN new |-> IF k \in DOMAIN new THEN new[k] ELSE old[k]]

\* log_execution_history that skips the entry of a failed run.
log_execution_history_SuccessOnly(log, history_entry) ==
    IF history_entry.success THEN Append(log, history_entry) ELSE log

\* log_execution_history: one line appended to execution_history.jsonl.
log_execution_history(log, history_entry) == Append(log, history_entry)

\* The except clause that keeps the seen-set when the status file says the
\* subscription has not failed before, and saves it otherwise.
process_job_except_StatusGated(job, all_data, seen_ids, L, old_status, error_msg) ==
    [result |-> FALSE, L |-> L, saved |-> FALSE,
     seen |-> IF old_status = NoStatus THEN seen_ids ELSE AllCurrentIds(all_data),
     seen_saved |-> old_status # NoStatus, candidates |-> {}, is_catch_up |-> FALSE,
     email_sent |-> FALSE,
     status |-> update_job_status(old_status,
                   [status |-> "error", last_run_error |-> error_msg,
                    last_run_success |-> FALSE]),
     entry |-> [job_id |-> job.id, success |-> FALSE, tenders_found |-> 0,
                error |-> TRUE]]

\* The except clause with the seen-set saved on the way out.
process_job_except_SeenSaved(job, all_data, seen_ids, L, old_status, error_msg) ==
    [result |-> FALSE, L |-> L, saved |-> FALSE, seen |-> AllCurrentIds(all_data),
     seen_saved |-> TRUE, candidates |-> {}, is_catch_up |-> FALSE, email_sent |-> FALSE,
     status |-> update_job_status(old_status,
                   [status |-> "error", last_run_error |-> error_msg,
                    last_run_success |-> FALSE]),
     entry |-> [job_id |-> job.id, success |-> FALSE, tenders_found |-> 0,
                error |-> TRUE]]

\* The except clause of process_job (lines 416-429): status error with the
\* text of the exception, a history entry with success False and count 0,
\* return False. save_job_seen_cache is not reached: the seen-set file stays
\* as it is.
process_job_except(job, all_data, seen_ids, L, old_status, error_msg) ==
    [result |-> FALSE, L |-> L, saved |-> FALSE, seen |-> seen_ids,
     seen_saved |-> FALSE, candidates |-> {}, is_catch_up |-> FALSE, email_sent |-> FALSE,
     status |-> update_job_status(old_status,
                   [status |-> "error", last_run_error |-> error_msg,
                    last_run_success |-> FALSE]),
     entry |-> [job_id |-> job.id, success |-> FALSE, tenders_found |-> 0,
                error |-> TRUE]]

\* process_job(job, all_data) as one function of what it reads: the record
\* set, the seen-set file, the tracker's ledger, the status file, the
\* configuration mode and the sink's answer. It yields what it writes.
process_job(job, all_data, seen_ids, L, old_status, mode, outcome) ==
    LET f == filter_data_for_job(all_data, job, seen_ids, L, mode)
        s == IF f.tenders # {} THEN send_email(job, f.tenders, L, outcome)
             ELSE [L |-> L, saved |-> FALSE, email_sent |-> FALSE]
    IN  IF f.raised
        THEN process_job_except(job, all_data, seen_ids, L, old_status, "NameError")
        ELSE [result |-> TRUE, L |-> s.L, saved |-> s.saved,
              seen |-> AllCurrentIds(all_data), seen_saved |-> TRUE,
              candidates |-> {TenderId(t) : t \in f.tenders},
              is_catch_up |-> f.is_catch_up, email_sent |-> s.email_sent,
              status |-> update_job_status(old_status,
                            [status |-> "idle", last_run_tenders |-> Cardinality(f.tenders),
                             last_run_success |-> TRUE,
                             last_run_was_catchup |-> f.is_catch_up]),
              entry |-> [job_id |-> job.id, success |-> TRUE,
                         tenders_found |-> Cardinality(f.tenders), error |-> FALSE]]

\* success_count of run() counting every processed job.
CountSuccess_Always(success_count, result) == success_count + 1

\* The body of the loop over due_jobs (lines 487-488).
CountSuccess(success_count, result) ==
    IF result THEN success_count + 1 ELSE success_count

\* cleanup_old_files: the tracker's ledger without the entries of recipients
\* that no job returned by load_job_configs lists.
ActiveRecipients(jobs) == UNION {Range(job.recipients) : job \in jobs}

\* cleanup_old_files that forgets every recipient.
cleanup_old_files_DropAll(L, jobs) == [L |-> EmptyLedger, saved |-> DOMAIN L # {}]

cleanup_old_files(L, jobs) ==
    LET orphaned == DOMAIN L \ ActiveRecipients(jobs)
    IN  [L |-> [e \in DOMAIN L \ orphaned |-> L[e]], saved |-> orphaned # {}]

\* ------------------------------------- tender_scraper.py and the dashboard

\* load_seen (lines 190-199): the ids of the file PPIP_CACHE names, the empty
\* set when it cannot be read.
load_seen(file) == IF file.valid THEN file.ids ELSE {}

\* filter_rows (lines 206-236) with active_only: the active rows that have an
\* id outside seen and pass the class filter. It raises where the class
\* filter raises.
FilterRowsRaises(rows, seen, allowed) ==
    \E t \in rows : /\ is_tender_active(t) /\ TenderId(t) # "" /\ TenderId(t) \notin seen
                    /\ ClassFilterRaises(t, allowed)
filter_rows(rows, seen, allowed) ==
    {t \in rows : /\ is_tender_active(t) /\ TenderId(t) # "" /\ TenderId(t) \notin seen
                  /\ ClassMatches(t, allowed)}

\* send_mail (lines 256-300): the deliveries it makes. With dry it prints the
\* message and returns.
send_mail(recipients, ids, dry, outcome) ==
    IF dry \/ outcome # "ok" \/ recipients = <<>> THEN {} ELSE Range(recipients) \X ids

\* main() of tender_scraper.py from the rows on (lines 370-396): nothing
\* happens without rows; with fresh rows the message goes to send_mail and
\* the ids of all rows are saved to the seen file, whatever --dry-run says.
scraper_main(rows, file, allowed, recipients, dry, outcome) ==
    LET seen == load_seen(file)
        fresh == filter_rows(rows, seen, allowed)
    IN  IF rows = {} \/ FilterRowsRaises(rows, seen, allowed) \/ fresh = {}
        THEN [seen_saved |-> FALSE, seen |-> seen, mail |-> {}, printed |-> FALSE]
        ELSE [seen_saved |-> TRUE, seen |-> AllCurrentIds(rows),
              mail |-> send_mail(recipients, {TenderId(t) : t \in fresh}, dry, outcome),
              printed |-> dry]

\* get_job_status and update_job_status of dashboard_app.py (lines 714-730):
\* a missing or unreadable status file counts as the default status, and the
\* merged status is written.
dashboard_update_job_status(old, new) ==
    LET current == IF old = NoStatus \/ old = CorruptStatus
                   THEN [status |-> "idle", last_run |-> "null", next_run |-> "null"]
                   ELSE old
    IN  [k \in DOMAIN current \cup DOMAIN new |->
            IF k \in DOMAIN new THEN new[k] ELSE current[k]]

\* ------------------------------------------------------------------ state

VARIABLES
    pc,          \* per invocation slot: where the process is
    lock_file,   \* self.lock_file: NoFile, or the inode it opened and whether it is open
    acquired,    \* what acquire_lock returned, "unset" before it returns
    tracker,     \* self.email_tracker.data["recipients"], loaded in __init__
    all_data,    \* the record set loaded by load_cache_data
    due,         \* due_jobs still to be processed, in order
    exc,         \* an exception is propagating out of run()
    exit_code,   \* exit code of the process, -1 while it runs
    runs,        \* invocations started so far
    harvests,    \* cache rewrites so far
    lockPath,    \* the inode dispatcher.lock names, NoInode when the path is missing
    flock,       \* per inode: the process holding the exclusive flock
    token,       \* per inode: the process whose "PID/Started" text it holds
    cacheFile,   \* cache/tender_data.json
    configFile,  \* configs/<job>.json
    ledgerFile,  \* email_tracking.json
    seenFile,    \* seen/seen_<job>.json
    statusFile,  \* status/<job>.json
    history,     \* execution_history.jsonl
    appMode,     \* new_recipient_mode in app_config.json
    sent,        \* notification sink: deliveries per (recipient, identity)
    last,        \* the latest process_job call: what it read and what it yielded
    batch,       \* run(): len(due_jobs), success_count, what process_job returned, for which jobs
    ut_tender,   \* the record handed to the record utilities
    ut_result,   \* what the record utilities answered for it
    et_file,     \* the tracking file an EmailTracker instance was constructed from
    et_data,     \* that instance, used on its own: data["recipients"]
    et_last,     \* the latest mark_tenders_sent call that returned
    et_calls,    \* mark_tenders_sent calls on it so far
    dry_run,     \* the latest manual test of a job from the dashboard
    tests,       \* manual tests so far
    tempFile,    \* cache/tender_data.tmp while save_cache is between unlink and rename
    et_query     \* the latest is_new_recipient / get_sent_tenders query, or call that raised

procVars == <<pc, lock_file, acquired, tracker, all_data, due, exc, exit_code, batch>>
lockVars == <<lockPath, flock, token>>
dataFiles == <<cacheFile, configFile, ledgerFile, seenFile, statusFile, history, appMode>>
dispatcherVars == <<procVars, runs, harvests, lockVars, dataFiles, sent, last>>
utilVars == <<ut_tender, ut_result, et_file, et_data, et_last, et_calls, et_query>>
outsideVars == <<dry_run, tests, tempFile>>
vars == <<dispatcherVars, utilVars, outsideVars>>

Inodes == 1..Cardinality(Procs)
NoInode == 0
NoFile == [ino |-> NoInode, open |-> FALSE]
NoData == [none |-> TRUE, data |-> {}]
Data(d) == [none |-> FALSE, data |-> d]
NoToken == "empty"
NoCall == [job |-> "none"]
NoDryRun == [job |-> "none"]
NoBatch == [due_count |-> 0, success_count |-> 0, results |-> <<>>, jobs |-> <<>>]

\* Deliveries are counted up to MaxCount.
MaxCount == 2
Bump(n) == IF n < MaxCount THEN n + 1 ELSE n

\* ------------------------------------- the utilities of tender_utils alone

\* Number of mark_tenders_sent calls on the EmailTracker instance.
MaxCalls == 2
\* Length of the identity list of one mark_tenders_sent call.
MaxLen == 2

\* The close_at strings: every shape at times around the reference time (a
\* date is a midnight), and the shapes that do not parse.
CloseAtTimes == (Now - 3)..(Now + 2)
CloseAtValues ==
    {EmptyStr}
    \cup {CloseAt(k, at) : k \in {"iso_zone", "iso", "datetime"}, at \in CloseAtTimes}
    \cup {CloseAt("date", at) : at \in {a \in CloseAtTimes : a % 2 = 0}}
    \cup {CloseAt(k, 0) : k \in {"garbage_T", "garbage_space", "garbage"}}

\* Records with an identity, without close_at or with one of the strings.
UtilTenders == {[id |-> "1"]} \cup {[id |-> "1", close_at |-> c] : c \in CloseAtValues}

\* Records without an id, and with each kind of value under "id".
IdRecords ==
    {[category |-> Str(<<"G", "o">>)]}
    \cup {[id |-> raw, category |-> Str(<<"G", "o">>)] : raw \in {"", "0", "null", "2"}}

\* The allowed-class sets of the subscription the record is selected for.
ClassSets == {{}, {<<"w">>}, {<<"W", "O">>, <<"x">>}}

\* Records with every combination of the four category fields, each absent or
\* holding a value: a nested object with a title, without one, with an empty
\* or null title, a string where the object is expected; flat strings, empty
\* strings, null, numbers.
Absent == [type |-> "absent", val |-> <<>>]
CategoryFields ==
    [procurement_category :
         {Absent, Dict(TRUE, Str(<<"W", "o">>)), Dict(FALSE, Null), Dict(TRUE, Str(<<>>)),
          Dict(TRUE, Null), Str(<<"W", "o">>)},
     category_name : {Absent, Str(<<"G", "o">>), Str(<<>>), Null},
     category : {Absent, Str(<<"S", "e">>), Num(<<"7">>)},
     procurement_category_id : {Absent, Num(<<"5">>)}]
CategoryRecord(f) ==
    [id |-> "1"] @@ [k \in {n \in DOMAIN f : f[n].type # "absent"} |-> f[k]]
CategoryRecords == {CategoryRecord(f) : f \in CategoryFields}

\* Arguments of mark_tenders_sent: lists with duplicates and out of order.
UtilEmails == {"a@x.com", "b@x.com"}
IdLists == UNION {[1..n -> {"1", "2"}] : n \in 0..MaxLen}

NoResult == [applied |-> FALSE, active |-> FALSE, regular |-> {}, catch_up |-> {},
             category |-> Unknown, allowed_classes |-> {},
             matches |-> [raised |-> FALSE, value |-> FALSE],
             seen_ids |-> {}, tender_ids |-> {}]
NoQuery == [email |-> "none", raised |-> FALSE, is_new |-> FALSE, sent |-> {}]
NoMark == [email |-> "none", tender_ids |-> <<>>, before |-> EmptyLedger,
           repeated |-> FALSE]

\* The dispatcher does not use the utilities on their own.
UtilIdle ==
    /\ ut_tender = [id |-> "1"]
    /\ ut_result = NoResult
    /\ et_file = LedgerFile("absent", EmptyLedger)
    /\ et_data = EmptyLedger
    /\ et_last = NoMark
    /\ et_calls = 0
    /\ et_query = NoQuery

\* ---------------------------------------------------------- the dispatcher

\* No invocation has started and nothing has been sent.
FreshProcs ==
    /\ pc = [p \in Procs |-> "new"]
    /\ lock_file = [p \in Procs |-> NoFile]
    /\ acquired = [p \in Procs |-> "unset"]
    /\ tracker = [p \in Procs |-> EmptyLedger]
    /\ all_data = [p \in Procs |-> NoData]
    /\ due = [p \in Procs |-> <<>>]
    /\ exc = [p \in Procs |-> FALSE]
    /\ exit_code = [p \in Procs |-> -1]
    /\ runs = 0
    /\ harvests = 0
    /\ lockPath = NoInode
    /\ flock = [i \in Inodes |-> NoProc]
    /\ token = [i \in Inodes |-> NoToken]
    /\ dry_run = NoDryRun
    /\ tests = 0
    /\ tempFile = NoCache
    /\ history = <<>>
    /\ sent = [d \in Emails \X TenderIds |-> 0]
    /\ last = NoCall
    /\ batch = [p \in Procs |-> NoBatch]

\* ... and no status file has been written.
Fresh == FreshProcs /\ statusFile = [j \in Jobs |-> NoStatus]

\* The deployment before the first harvest: the deployed subscriptions, no
\* cache, no seen-set.
DispatcherInit ==
    /\ Fresh
    /\ cacheFile = NoCache
    /\ configFile = DeployedConfigs
    /\ ledgerFile \in InitLedgers
    /\ seenFile = [j \in Jobs |-> SeenFile({})]
    /\ appMode \in ConfigModes

Init == DispatcherInit /\ UtilIdle

\* ------------------------------------------------------------- environment

\* save_cache of central_harvester.py (lines 134-145) writes the new content
\* to tender_data.tmp, unlinks tender_data.json when it exists, and renames
\* the temp file. On a missing cache file the only change another process
\* can see is the rename. On an existing one the step ends after the unlink:
\* the cache file is gone and the new content waits in the temp file.
Harvest ==
    /\ harvests < MaxHarvests
    /\ tempFile = NoCache
    /\ harvests' = harvests + 1
    /\ \E new \in CacheChoices :
          IF cacheFile.exists
          THEN cacheFile' = NoCache /\ tempFile' = new
          ELSE cacheFile' = new /\ tempFile' = tempFile
    /\ UNCHANGED <<utilVars, procVars, runs, lockVars, configFile, ledgerFile, seenFile,
                   statusFile, history, appMode, sent, last, dry_run, tests>>

\* temp_file.rename(CACHE_FILE) (line 145) after the unlink: the temp file
\* becomes the cache; when rename raises, the except clause (lines 148-151)
\* removes the temp file and the cache file stays missing.
HarvestRename ==
    /\ tempFile.exists
    /\ \E renamed \in BOOLEAN :
          cacheFile' = IF renamed THEN tempFile ELSE cacheFile
    /\ tempFile' = NoCache
    /\ UNCHANGED <<utilVars, procVars, runs, harvests, lockVars, configFile, ledgerFile,
                   seenFile, statusFile, history, appMode, sent, last, dry_run, tests>>

\* Number of manual tests from the dashboard.
MaxTests == 1

\* What tender_scraper.py works on (determine_data_source, lines 300-331): the
\* cache when it is readable and fresh, otherwise what the API returns.
DryRunRows ==
    (IF cacheFile.exists /\ ~cacheFile.corrupt THEN {cacheFile.data} ELSE {})
    \cup {c.data : c \in CacheChoices}

\* run_job of the dashboard (lines 1006-1068): status running, then
\* tender_scraper.py --dry-run with the subscription's classes and recipients
\* and PPIP_CACHE set to the subscription's seen file, then status idle with
\* last_test. No lock is taken.
RunJob(j) ==
    /\ tests < MaxTests
    /\ tests' = tests + 1
    /\ configFile[j].kind = "object"
    /\ "recipients" \in DOMAIN configFile[j].job
    /\ \E rows \in DryRunRows :
          LET cfg == configFile[j].job
              allowed == IF "classes" \in DOMAIN cfg THEN cfg.classes ELSE {}
              m == scraper_main(rows, seenFile[j], allowed, cfg.recipients, TRUE, "ok")
              running == dashboard_update_job_status(statusFile[j], [status |-> "running"])
          IN  /\ seenFile' = IF m.seen_saved
                             THEN [seenFile EXCEPT ![j] = SeenFile(m.seen)] ELSE seenFile
              /\ sent' = [d \in Emails \X TenderIds |->
                             IF d \in m.mail THEN Bump(sent[d]) ELSE sent[d]]
              /\ statusFile' =
                    [statusFile EXCEPT ![j] =
                        dashboard_update_job_status(running,
                            [status |-> "idle", last_test |-> "now"])]
              /\ dry_run' = [job |-> j, rows |-> rows, seen_before |-> seenFile[j],
                             seen_after |-> seenFile'[j], printed |-> m.printed,
                             mail |-> m.mail]
    /\ UNCHANGED <<utilVars, procVars, runs, harvests, lockVars, cacheFile, configFile,
                   ledgerFile, history, appMode, last, tempFile>>

\* ------------------------------------------------------ main() and __init__

\* cron starts an invocation: JobDispatcher.__init__ loads the ledger.
Construct(p) ==
    /\ pc[p] \in {"new", "done"}
    /\ runs < MaxRuns
    /\ runs' = runs + 1
    /\ pc' = [pc EXCEPT ![p] = "acquire_open"]
    /\ lock_file' = [lock_file EXCEPT ![p] = NoFile]
    /\ acquired' = [acquired EXCEPT ![p] = "unset"]
    /\ tracker' = [tracker EXCEPT ![p] = ledgerFile]
    /\ all_data' = [all_data EXCEPT ![p] = NoData]
    /\ due' = [due EXCEPT ![p] = <<>>]
    /\ exc' = [exc EXCEPT ![p] = FALSE]
    /\ exit_code' = [exit_code EXCEPT ![p] = -1]
    /\ batch' = [batch EXCEPT ![p] = NoBatch]
    /\ UNCHANGED <<utilVars, outsideVars, harvests, lockVars, dataFiles, sent, last>>

\* ---------------------------------------------------------- acquire_lock

\* An inode that no path and no open file refers to.
InUse(i) == i = lockPath \/ \E q \in Procs : lock_file[q].open /\ lock_file[q].ino = i
FreeInode == CHOOSE i \in Inodes : ~InUse(i) /\ \A k \in Inodes : ~InUse(k) => i <= k

\* open(LOCK_FILE, 'w'): opens the file the path names and truncates it, or
\* creates it.
AcquireOpen(p) ==
    /\ pc[p] = "acquire_open"
    /\ LET i == IF lockPath # NoInode THEN lockPath ELSE FreeInode
       IN  /\ lock_file' = [lock_file EXCEPT ![p] = [ino |-> i, open |-> TRUE]]
           /\ lockPath' = i
           /\ token' = [token EXCEPT ![i] = NoToken]
           /\ flock' = IF lockPath # NoInode THEN flock ELSE [flock EXCEPT ![i] = NoProc]
    /\ pc' = [pc EXCEPT ![p] = "acquire_flock"]
    /\ UNCHANGED <<batch, utilVars, outsideVars, acquired, tracker, all_data, due, exc, exit_code, runs, harvests,
                   dataFiles, sent, last>>

\* flock(LOCK_EX | LOCK_NB) on the opened file. On success the PID/Started
\* text is written and flushed; on failure the file is closed (self.lock_file
\* keeps the closed file object), acquire_lock returns False and run() returns.
AcquireFlock(p) ==
    /\ pc[p] = "acquire_flock"
    /\ LET i == lock_file[p].ino
       IN  IF flock[i] = NoProc
           THEN /\ flock' = [flock EXCEPT ![i] = p]
                /\ token' = [token EXCEPT ![i] = p]
                /\ pc' = [pc EXCEPT ![p] = "load_cache"]
                /\ acquired' = [acquired EXCEPT ![p] = "yes"]
                /\ UNCHANGED lock_file
           ELSE /\ lock_file' = [lock_file EXCEPT ![p].open = FALSE]
                /\ pc' = [pc EXCEPT ![p] = "main_finally"]
                /\ acquired' = [acquired EXCEPT ![p] = "no"]
                /\ UNCHANGED <<flock, token>>
    /\ UNCHANGED <<batch, utilVars, outsideVars, tracker, all_data, due, exc, exit_code, runs, harvests,
                   lockPath, dataFiles, sent, last>>

\* ------------------------------------------------------------------ run()

\* RunFinally with the release placed after the batch instead of in a finally
\* clause: an exception passing through skips it.
RunFinallySkippedByException(reason) ==
    IF reason = "exception" THEN "main_finally" ELSE "release_unlock"

\* Where control goes when the try block of run() is left: the finally clause
\* (lines 496-497) calls release_lock whatever the reason, an early return
\* ("no_data", "no_jobs", "no_due"), the end of the batch ("complete") or an
\* exception passing through ("exception").
RunFinally(reason) == "release_unlock"

\* due_jobs with every job listed twice.
JobSeq_Twice(D) ==
    (IF "j1" \in D THEN <<"j1", "j1">> ELSE <<>>)
    \o (IF "j2" \in D THEN <<"j2", "j2">> ELSE <<>>)

\* due_jobs in the order of the configuration files.
JobSeq(D) ==
    (IF "j1" \in D THEN <<"j1">> ELSE <<>>) \o (IF "j2" \in D THEN <<"j2">> ELSE <<>>)

\* load_cache_data: None when the file is missing or reading it raises,
\* otherwise the list under "data".
load_cache_data(file) ==
    IF ~file.exists \/ file.corrupt THEN NoData ELSE Data(file.data)

\* load_cache_data, and the early return when there is no data.
LoadCache(p) ==
    /\ pc[p] = "load_cache"
    /\ LET loaded == load_cache_data(cacheFile)
       IN  /\ all_data' = [all_data EXCEPT ![p] = loaded]
           /\ pc' = [pc EXCEPT ![p] =
                        IF NoDataAvailable(loaded) THEN RunFinally("no_data")
                        ELSE "load_jobs"]
    /\ UNCHANGED <<batch, utilVars, outsideVars, lock_file, acquired, tracker, due, exc, exit_code, runs, harvests,
                   lockVars, dataFiles, sent, last>>

\* load_job_configs and the selection of the due jobs: is_job_due matches the
\* schedule against the clock, so any subset of the jobs can match.
LoadJobs(p) ==
    /\ pc[p] = "load_jobs"
    /\ \E write_ok \in RepairOutcomes(configFile) :
          LET c == load_job_configs(configFile, write_ok)
          IN  \E matching \in SUBSET c.jobs :
                 LET D == {j \in c.jobs : is_job_due(configFile[j].job, j \in matching)}
                 IN  /\ configFile' = c.files
                     /\ due' = [due EXCEPT ![p] = JobSeq(D)]
                     /\ batch' = [batch EXCEPT ![p] =
                                     [due_count |-> Len(JobSeq(D)), success_count |-> 0,
                                      results |-> <<>>, jobs |-> <<>>]]
                     /\ pc' = [pc EXCEPT ![p] =
                                  IF c.jobs = {} THEN RunFinally("no_jobs")
                                  ELSE IF D = {} THEN RunFinally("no_due")
                                  ELSE "process_job"]
    /\ UNCHANGED <<utilVars, outsideVars, lock_file, acquired, tracker, all_data, exc, exit_code, runs, harvests,
                   lockVars, cacheFile, ledgerFile, seenFile, statusFile, history, appMode,
                   sent, last>>

\* One iteration of the loop over due_jobs: process_job on the next due job,
\* the object load_job_configs read from its file.
ProcessJob(p) ==
    /\ pc[p] = "process_job"
    /\ due[p] # <<>>
    /\ \E outcome \in SendOutcomes :
          LET j == Head(due[p])
              job == configFile[j].job
              seen_ids == load_job_seen_cache(seenFile[seen_file(job.id)])
              r == process_job(job, all_data[p].data, seen_ids, tracker[p],
                               statusFile[status_file(job.id)], appMode, outcome)
          IN  /\ tracker' = [tracker EXCEPT ![p] = r.L]
              /\ ledgerFile' = IF r.saved THEN r.L ELSE ledgerFile
              /\ seenFile' = IF r.seen_saved
                             THEN [seenFile EXCEPT ![seen_file(job.id)] = SeenFile(r.seen)]
                             ELSE seenFile
              /\ statusFile' = [statusFile EXCEPT ![status_file(job.id)] = r.status]
              /\ history' = log_execution_history(history, r.entry)
              /\ batch' = [batch EXCEPT ![p] =
                              [due_count |-> batch[p].due_count,
                               success_count |->
                                   CountSuccess(batch[p].success_count, r.result),
                               results |-> Append(batch[p].results, r.result),
                               jobs |-> Append(batch[p].jobs, job.id)]]
              /\ sent' = [d \in Emails \X TenderIds |->
                             IF r.email_sent /\ d[1] \in Range(job.recipients)
                                             /\ d[2] \in r.candidates
                             THEN Bump(sent[d]) ELSE sent[d]]
              /\ last' = [job |-> j, config |-> job, data |-> all_data[p].data,
                          seen |-> seen_ids,
                          L |-> tracker[p], mode |-> appMode,
                          outcome |-> IF r.candidates # {} THEN outcome ELSE "not_called",
                          r |-> r]
    /\ due' = [due EXCEPT ![p] = Tail(due[p])]
    /\ pc' = [pc EXCEPT ![p] = IF Tail(due[p]) = <<>> THEN "cleanup" ELSE "process_job"]
    /\ UNCHANGED <<utilVars, outsideVars, lock_file, acquired, all_data, exc, exit_code, runs, harvests, lockVars,
                   cacheFile, configFile, appMode>>

\* The end of the batch (lines 490-494): the count is logged, and
\* cleanup_old_files is called when the minute is a multiple of 10.
BatchComplete(p) ==
    /\ pc[p] = "cleanup"
    /\ \E tenth \in BOOLEAN :
          pc' = [pc EXCEPT ![p] = IF tenth THEN "housekeeping" ELSE RunFinally("complete")]
    /\ batch' = [batch EXCEPT ![p] = NoBatch]
    /\ UNCHANGED <<utilVars, outsideVars, lock_file, acquired, tracker, all_data, due, exc, exit_code, runs,
                   harvests, lockVars, dataFiles, sent, last>>

\* cleanup_old_files: load_job_configs once more, with its repairs, then the
\* ledger entries of the orphaned recipients are deleted and the ledger saved.
Cleanup(p) ==
    /\ pc[p] = "housekeeping"
    /\ \E write_ok \in RepairOutcomes(configFile) :
          LET loaded == load_job_configs(configFile, write_ok)
              c == cleanup_old_files(tracker[p], {configFile[j].job : j \in loaded.jobs})
          IN  /\ configFile' = loaded.files
              /\ tracker' = [tracker EXCEPT ![p] = c.L]
              /\ ledgerFile' = IF c.saved THEN c.L ELSE ledgerFile
    /\ pc' = [pc EXCEPT ![p] = RunFinally("complete")]
    /\ UNCHANGED <<utilVars, outsideVars, lock_file, acquired, all_data, due, exc, exit_code, runs, harvests, lockVars,
                   batch, cacheFile, seenFile, statusFile, history, appMode, sent, last>>

\* An exception that nothing inside the try block catches (KeyboardInterrupt,
\* which main() expects at line 508) arrives while the batch is running and
\* leaves run() through its finally clause.
Interrupt(p) ==
    /\ pc[p] = "process_job"
    /\ exc' = [exc EXCEPT ![p] = TRUE]
    /\ pc' = [pc EXCEPT ![p] = RunFinally("exception")]
    /\ batch' = [batch EXCEPT ![p] = NoBatch]
    /\ UNCHANGED <<utilVars, outsideVars, lock_file, acquired, tracker, all_data, due, exit_code, runs, harvests,
                   lockVars, dataFiles, sent, last>>

\* ---------------------------------------------------------- release_lock

\* release_lock called from the finally clause of run(), where the file is
\* open: fcntl.flock(LOCK_UN), then close(); self.lock_file keeps the closed
\* file object.
ReleaseUnlock(p) ==
    /\ pc[p] = "release_unlock"
    /\ flock' = [i \in Inodes |->
                    IF i = lock_file[p].ino /\ flock[i] = p THEN NoProc ELSE flock[i]]
    /\ lock_file' = [lock_file EXCEPT ![p].open = FALSE]
    /\ pc' = [pc EXCEPT ![p] = "release_exists"]
    /\ UNCHANGED <<batch, utilVars, outsideVars, acquired, tracker, all_data, due, exc, exit_code, runs, harvests,
                   lockPath, token, dataFiles, sent, last>>

\* LOCK_FILE.exists().
ReleaseExists(p) ==
    /\ pc[p] = "release_exists"
    /\ pc' = [pc EXCEPT ![p] = IF lockPath # NoInode THEN "release_unlink"
                               ELSE "main_finally"]
    /\ UNCHANGED <<batch, utilVars, outsideVars, lock_file, acquired, tracker, all_data, due, exc, exit_code, runs, harvests,
                   lockVars, dataFiles, sent, last>>

\* LOCK_FILE.unlink(): removes whatever file the path names now; raises
\* FileNotFoundError when another process removed it since exists().
ReleaseUnlink(p) ==
    /\ pc[p] = "release_unlink"
    /\ lockPath' = NoInode
    /\ exc' = [exc EXCEPT ![p] = exc[p] \/ lockPath = NoInode]
    /\ pc' = [pc EXCEPT ![p] = "main_finally"]
    /\ UNCHANGED <<batch, utilVars, outsideVars, lock_file, acquired, tracker, all_data, due, exit_code, runs, harvests,
                   flock, token, dataFiles, sent, last>>

\* ------------------------------------------------------ main(): the end

\* main() logs and swallows an exception of run(), then its finally clause
\* calls release_lock again. self.lock_file is None only if open() never
\* returned; a closed file object is truthy and its fileno() raises
\* ValueError, which nothing catches: the process ends with exit code 1.
\* At exit the operating system closes what the process still has open, and
\* the memory of the process is gone.
MainFinally(p) ==
    /\ pc[p] = "main_finally"
    /\ LET f == lock_file[p]
       IN  /\ exit_code' = [exit_code EXCEPT ![p] =
                               IF f = NoFile \/ f.open THEN 0 ELSE 1]
           /\ lockPath' = IF f.open THEN NoInode ELSE lockPath
           /\ flock' = [i \in Inodes |-> IF flock[i] = p THEN NoProc ELSE flock[i]]
           /\ lock_file' = [lock_file EXCEPT ![p] = NoFile]
    /\ tracker' = [tracker EXCEPT ![p] = EmptyLedger]
    /\ all_data' = [all_data EXCEPT ![p] = NoData]
    /\ due' = [due EXCEPT ![p] = <<>>]
    /\ exc' = [exc EXCEPT ![p] = FALSE]
    /\ batch' = [batch EXCEPT ![p] = NoBatch]
    /\ pc' = [pc EXCEPT ![p] = "done"]
    /\ UNCHANGED <<utilVars, outsideVars, acquired, runs, harvests, token, dataFiles, sent, last>>

\* ------------------------------------------------------------ the system

Step(p) ==
    \/ Construct(p)
    \/ AcquireOpen(p)
    \/ AcquireFlock(p)
    \/ LoadCache(p)
    \/ LoadJobs(p)
    \/ ProcessJob(p)
    \/ BatchComplete(p)
    \/ Cleanup(p)
    \/ Interrupt(p)
    \/ ReleaseUnlock(p)
    \/ ReleaseExists(p)
    \/ ReleaseUnlink(p)
    \/ MainFinally(p)

Next == Harvest \/ \E p \in Procs : Step(p)

Spec == Init /\ [][Next]_vars

\* A started process keeps executing until it exits; nothing guarantees that
\* cron starts another invocation or that an interrupt arrives.
Run(p) ==
    \/ AcquireOpen(p)
    \/ AcquireFlock(p)
    \/ LoadCache(p)
    \/ LoadJobs(p)
    \/ ProcessJob(p)
    \/ BatchComplete(p)
    \/ Cleanup(p)
    \/ ReleaseUnlock(p)
    \/ ReleaseExists(p)
    \/ ReleaseUnlink(p)
    \/ MainFinally(p)

\* The specification of the liveness properties: a fresh deployment (no ledger
\* file yet, no new_recipient_mode configured), the same steps, and weak
\* fairness of every started process.
FairInit == Init /\ ledgerFile = EmptyLedger /\ appMode = "absent"
FairSpec == FairInit /\ [][Next]_vars /\ \A p \in Procs : WF_vars(Run(p))

\* The specification of the recovery properties: cron starts one invocation
\* after the other on a deployment whose files may be damaged: subscription
\* files that are corrupt, incomplete or carry an unusable schedule, a corrupt
\* seen-set, a cache that is corrupt or missing.
RecoveryInit ==
    /\ Fresh
    /\ UtilIdle
    /\ cacheFile \in {NoCache, CorruptCache}
    /\ configFile \in ConfigChoices
    /\ ledgerFile \in InitLedgers
    /\ seenFile \in {[j \in Jobs |-> SeenFile({})],
                     [j \in Jobs |-> IF j = "j1" THEN CorruptSeen ELSE SeenFile({"1"})]}
    /\ appMode = "absent"
RecoveryNext == Harvest \/ HarvestRename \/ Step("p1")
RecoverySpec == RecoveryInit /\ [][RecoveryNext]_vars

\* The specification of the whole site: cron starts one invocation after the
\* other while the harvester rewrites an existing cache and an operator tests
\* subscriptions from the dashboard; a status file may be unreadable.
SiteInit ==
    /\ FreshProcs
    /\ UtilIdle
    /\ statusFile \in {[j \in Jobs |-> NoStatus],
                        [j \in Jobs |-> IF j = "j1" THEN CorruptStatus ELSE NoStatus]}
    /\ cacheFile \in {NoCache, Cache({T1, T2})}
    /\ configFile = DeployedConfigs
    /\ ledgerFile = EmptyLedger
    /\ seenFile = [j \in Jobs |-> SeenFile({})]
    /\ appMode = "absent"
SiteNext == Harvest \/ HarvestRename \/ Step("p1") \/ \E j \in Jobs : RunJob(j)
SiteSpec == SiteInit /\ [][SiteNext]_vars

\* The site with a dispatcher that keeps executing once started.
FairSiteSpec == SiteSpec /\ WF_vars(Run("p1"))

\* ------------------------------------------ the utilities: specification

\* A record is handed to get_tender_category, to is_tender_active and to the
\* selection loop of filter_data_for_job (lines 220-258) for a subscription
\* with some allowed classes whose seen-set is empty: the class filter's
\* answer, the regular and the catch-up candidate sets, and what lines 391
\* and 317 make of the record for the seen-set and for the ledger.
ApplyRecordUtilities ==
    /\ ~ut_result.applied
    /\ \E allowed_classes \in ClassSets :
          LET job == [JobConfig("j1") EXCEPT !.classes = allowed_classes]
              raised == SelectionLoopRaises({ut_tender}, job)
              regular == IF raised THEN {} ELSE FreshTenders({ut_tender}, job, {})
              catch_up == IF raised THEN {} ELSE UnsentToNew({ut_tender}, job, EmptyLedger)
          IN  ut_result' =
                 [applied |-> TRUE,
                  active |-> is_tender_active(ut_tender),
                  regular |-> {TenderId(t) : t \in regular},
                  catch_up |-> {TenderId(t) : t \in catch_up},
                  category |-> get_tender_category(ut_tender),
                  allowed_classes |-> allowed_classes,
                  matches |-> [raised |-> ClassFilterRaises(ut_tender, allowed_classes),
                               value |-> ~ClassFilterRaises(ut_tender, allowed_classes)
                                         /\ ClassMatches(ut_tender, allowed_classes)],
                  seen_ids |-> AllCurrentIds({ut_tender}),
                  tender_ids |-> {TenderId(t) : t \in {u \in regular \cup catch_up :
                                                          HasTruthyId(u)}}]
    /\ UNCHANGED <<dispatcherVars, outsideVars, ut_tender, et_file, et_data, et_last, et_calls, et_query>>

\* One mark_tenders_sent call on the instance. Its first statement subscripts
\* self.data["recipients"]: on an object without the key the call raises
\* KeyError and changes nothing.
MarkTendersSent ==
    /\ et_calls < MaxCalls
    /\ \E email \in UtilEmails, tender_ids \in IdLists :
          LET r == DataRecipients(load_tracking_data(et_file))
          IN  IF r.raised
              THEN /\ et_query' = [email |-> email, raised |-> TRUE, is_new |-> FALSE,
                                   sent |-> {}]
                   /\ UNCHANGED <<et_data, et_last>>
              ELSE /\ et_data' = mark_tenders_sent(et_data, email, tender_ids)
                   /\ et_last' = [email |-> email, tender_ids |-> tender_ids,
                                  before |-> et_data,
                                  repeated |-> et_last.email = email
                                                 /\ et_last.tender_ids = tender_ids]
                   /\ UNCHANGED et_query
    /\ et_calls' = et_calls + 1
    /\ UNCHANGED <<dispatcherVars, outsideVars, ut_tender, ut_result, et_file>>

\* is_new_recipient(email) and get_sent_tenders(email) on the instance; both
\* subscript self.data["recipients"].
AskLedger ==
    /\ \E email \in UtilEmails :
          LET r == DataRecipients(load_tracking_data(et_file))
          IN  et_query' = [email |-> email, raised |-> r.raised,
                           is_new |-> ~r.raised /\ is_new_recipient(et_data, email),
                           sent |-> IF r.raised THEN {}
                                    ELSE get_sent_tenders(et_data, email)]
    /\ UNCHANGED <<dispatcherVars, outsideVars, ut_tender, ut_result, et_file, et_data, et_last, et_calls>>

\* EmailTracker.__init__ loads the ledger file; the record comes from the cache.
\* Either the record or the ledger file is varied.
UtilInit ==
    /\ DispatcherInit /\ ledgerFile = EmptyLedger /\ appMode = "absent"
    /\ \/ ut_tender \in UtilTenders \cup CategoryRecords \cup IdRecords
          /\ et_file = LedgerFile("absent", EmptyLedger)
       \/ ut_tender = [id |-> "1"] /\ et_file \in LedgerFiles
    /\ ut_result = NoResult
    /\ et_data = load_tracking_data(et_file).recipients
    /\ et_last = NoMark
    /\ et_calls = 0
    /\ et_query = NoQuery

UtilNext == ApplyRecordUtilities \/ MarkTendersSent \/ AskLedger

UtilSpec == UtilInit /\ [][UtilNext]_vars

\* ------------------------------------------------------------- properties

Ids(tenders) == {TenderId(t) : t \in tenders}

\* p is inside the try block of run(): it has the lock and has not begun to
\* release it.
InBatch(p) == pc[p] \in {"load_cache", "load_jobs", "process_job", "cleanup", "housekeeping"}

\* C1: at most one invocation is ever between a successful acquire_lock and
\* the end of its release_lock. Stated for the part of that span that lies
\* inside the try block of run(), which the span of the claim contains: no two
\* invocations are in their batch at once.
C1_TicksNeverOverlap ==
    \A p, q \in Procs : p # q => ~(InBatch(p) /\ InBatch(q))

\* C2: no recipient is sent a notification containing the same tender
\* identity more than once.
C2_AtMostOnce == \A d \in Emails \X TenderIds : sent[d] <= 1

\* C3: an invocation that has just acquired the lock works on a ledger that
\* is the persisted ledger, with every write saved before it acquired.
C3_LedgerViewCurrent ==
    \A p \in Procs : pc[p] = "load_cache" => tracker[p] = ledgerFile

\* p is in acquire_lock while another invocation holds the lock on the file
\* that the path names.
Contended(p) ==
    /\ pc[p] \in {"acquire_open", "acquire_flock"}
    /\ lockPath # NoInode
    /\ flock[lockPath] \in Procs \ {p}

\* C4: an invocation started while the lock is held changes no file (not the
\* subscription data, seen-sets, ledger, status or history, and not the lock
\* file or the holder's token in it), and it exits with code 0.
C4_ContendedRunIsNoOp ==
    /\ [][\A p \in Procs :
            (Contended(p) /\ pc'[p] # pc[p]) =>
                (dataFiles' = dataFiles /\ lockPath' = lockPath /\ token' = token)]_vars
    /\ [](\A p \in Procs : (pc[p] = "done" /\ acquired[p] = "no") => exit_code[p] = 0)

\* C5: every invocation that acquired the lock reaches, inside run(), the
\* point where release_lock has unlocked and closed the lock file.
C5_AcquiredLockIsReleased ==
    \A p \in Procs : (pc[p] = "load_cache") ~> (pc[p] = "release_exists")

\* C5 witness: an invocation that left the batch through an exception has
\* released the lock in the finally clause of run().
C5_Witness ==
    \E p \in Procs : pc[p] = "release_exists" /\ exc[p] /\ acquired[p] = "yes"

\* C6: when no exception left run(), the process ends with exit code 0, the
\* second release_lock of main() included.
C6_OrdinaryExitIsZero ==
    [][\A p \in Procs :
          (pc[p] = "main_finally" /\ pc'[p] = "done" /\ ~exc[p]) => exit_code'[p] = 0]_vars

\* The latest process_job call was a regular-selection case: no recipient of
\* the subscription was new, or the mode was new_only (the default).
RegularCase ==
    /\ last.job # "none"
    /\ \/ \A e \in Range(JobConfig(last.job).recipients) : ~is_new_recipient(last.L, e)
       \/ last.mode \in {"absent", "new_only"}

\* C7: in a regular-selection case, process_job selects exactly the active,
\* class-matching records whose identity is not in the seen-set, as a regular run.
C7_RegularSelection ==
    RegularCase =>
        /\ last.r.result
        /\ ~last.r.is_catch_up
        /\ last.r.candidates =
              {TenderId(t) : t \in
                  {u \in last.data :
                      /\ TenderId(u) # ""
                      /\ ClassMatches(u, JobConfig(last.job).classes)
                      /\ is_tender_active(u)
                      /\ TenderId(u) \notin last.seen}}

\* The latest process_job call was a catch-up case.
CatchUpCase ==
    /\ last.job # "none"
    /\ \E e \in Range(JobConfig(last.job).recipients) : is_new_recipient(last.L, e)
    /\ last.mode = "all_active"

\* C8: in a catch-up case, the run is marked catch-up and selects all active,
\* class-matching records (a new recipient's sent set is empty), whatever the
\* seen-set and the known recipients' history.
C8_CatchUpSelection ==
    CatchUpCase =>
        /\ last.r.result
        /\ last.r.is_catch_up
        /\ last.r.candidates =
              {TenderId(t) : t \in
                  {u \in last.data :
                      /\ TenderId(u) # ""
                      /\ ClassMatches(u, JobConfig(last.job).classes)
                      /\ is_tender_active(u)}}

\* The latest process_job call was a first run: empty class filter, empty
\* seen-set, every record active with an identity, and a sink that does not
\* refuse.
FirstRunCase ==
    /\ last.job # "none"
    /\ JobConfig(last.job).classes = {}
    /\ last.seen = {}
    /\ last.data # {}
    /\ \A t \in last.data : TenderId(t) # "" /\ is_tender_active(t)
    /\ last.outcome \notin {"no_key", "rejected", "exception"}

\* C9: a first run sends all n records, adds their identities to every
\* recipient's ledger entry, sets the seen-set to them and ends idle with
\* last_run_tenders = n.
C9_FirstRunDelivers ==
    FirstRunCase =>
        /\ last.r.result
        /\ last.r.email_sent
        /\ last.r.candidates = Ids(last.data)
        /\ \A e \in Range(JobConfig(last.job).recipients) :
              Ids(last.data) \subseteq get_sent_tenders(last.r.L, e)
        /\ last.r.seen = Ids(last.data)
        /\ last.r.status.status = "idle"
        /\ "last_run_tenders" \in DOMAIN last.r.status
        /\ last.r.status.last_run_tenders = Cardinality(last.data)

Returned(p) == Len(batch'[p].results) = Len(batch[p].results) + 1
ReturnedValue(p) == batch'[p].results[Len(batch'[p].results)]

\* C11: after a process_job run that went through without failure, the
\* seen-set of the subscription is exactly the set of identities of the
\* records of this tick.
C11_SeenSetRewritten ==
    [][\A p \in Procs :
          (Returned(p) /\ ReturnedValue(p)) =>
              seenFile'[last'.job] = SeenFile(Ids(last'.data))]_vars

\* The selection step of the latest process_job call raised.
SelectionRaised(c) ==
    filter_data_for_job(c.data, JobConfig(c.job), c.seen, c.L, c.mode).raised

SendFailed ==
    /\ last.job # "none"
    /\ last.outcome \in {"no_key", "rejected", "exception"}

\* C13: a failed send leaves the job successful with status idle and the
\* ledger as it was.
C13_SendFailureNotFatal ==
    SendFailed =>
        /\ last.r.result
        /\ last.r.status.status = "idle"
        /\ ~last.r.email_sent
        /\ last.r.L = last.L
        /\ ~last.r.saved

\* C14: process_job writes the ledger exactly when the send succeeded, and
\* then every candidate identity is in the entry of every recipient.
C14_LedgerWrittenOnSendSuccess ==
    last.job # "none" =>
        /\ last.r.saved <=> last.r.email_sent
        /\ last.r.email_sent =>
              \A e \in Range(JobConfig(last.job).recipients) :
                  last.r.candidates \subseteq get_sent_tenders(last.r.L, e)
        /\ ~last.r.email_sent => last.r.L = last.L

\* The number of True among the values process_job returned.
Successes(results) == Cardinality({i \in 1..Len(results) : results[i]})

\* C15: inside the loop of run() every due job is either processed or still
\* queued, a failed process_job leaves control in the loop with the remaining
\* due jobs, the batch ends only when all are processed, and success_count is
\* the number of successful ones, between 0 and the number of due jobs.
C15_FailureIsolation ==
    /\ [](\A p \in Procs :
            pc[p] \in {"process_job", "cleanup"} =>
                /\ Len(batch[p].results) + Len(due[p]) = batch[p].due_count
                /\ (pc[p] = "cleanup") = (due[p] = <<>>)
                /\ batch[p].success_count = Successes(batch[p].results)
                /\ 0 <= batch[p].success_count
                /\ batch[p].success_count <= batch[p].due_count)
    /\ [][\A p \in Procs :
            (Returned(p) /\ ~ReturnedValue(p)) =>
                /\ due'[p] = Tail(due[p])
                /\ pc'[p] = IF due'[p] # <<>> THEN "process_job" ELSE "cleanup"]_vars

\* C15 witness: a batch of two due jobs is complete although both failed.
C15_Witness ==
    \E p \in Procs :
        /\ pc[p] = "cleanup"
        /\ batch[p].due_count = 2
        /\ batch[p].results = <<FALSE, FALSE>>
        /\ batch[p].success_count = 0

\* C16: each process_job execution appends exactly one entry to the history
\* log; its success flag is what process_job returned, its count the number
\* of candidates on success and 0 on failure, its error text present exactly
\* on failure.
C16_OneHistoryEntryPerRun ==
    [][\A p \in Procs :
          Returned(p) =>
              /\ Len(history') = Len(history) + 1
              /\ SubSeq(history', 1, Len(history)) = history
              /\ LET history_entry == history'[Len(history')]
                 IN  /\ history_entry.job_id = last'.job
                     /\ history_entry.success = ReturnedValue(p)
                     /\ history_entry.tenders_found =
                           (IF ReturnedValue(p) THEN Cardinality(last'.r.candidates) ELSE 0)
                     /\ history_entry.error = ~ReturnedValue(p)]_vars

\* C16 witness: two executions have failed and the log holds their two
\* entries, each with success False, count 0 and an error text.
C16_Witness ==
    /\ Len(history) = 2
    /\ \A i \in 1..2 : ~history[i].success /\ history[i].tenders_found = 0
                          /\ history[i].error
    /\ last.job # "none" /\ ~last.r.result

\* close_at is one day before the reference time, in one of the three formats
\* the specification accepts; in the date format it is yesterday's date.
OneDayPast(t) ==
    /\ Has(t, "close_at")
    /\ \/ t.close_at.kind \in {"iso_zone", "datetime"} /\ t.close_at.at = Now - 2
       \/ t.close_at.kind = "date" /\ t.close_at.at = Now - 3

\* C17: a record that closed one day ago, in any of the three formats, is not
\* active and is in neither the regular nor the catch-up candidate set of a
\* subscription that never saw it.
C17_ExpiredRecordExcluded ==
    (ut_result.applied /\ OneDayPast(ut_tender)) =>
        /\ ~ut_result.active
        /\ ut_result.regular = {}
        /\ ut_result.catch_up = {}

\* close_at is missing, empty, or a string that none of the formats parses.
Unparsable(t) ==
    \/ ~Has(t, "close_at")
    \/ t.close_at.kind \in {"empty", "garbage_T", "garbage_space", "garbage"}

\* C18: is_tender_active answers True for every record whose close_at is
\* missing, empty or unparsable.
C18_FailOpen ==
    (ut_result.applied /\ Unparsable(ut_tender)) => ut_result.active

\* C18 witness: is_tender_active has answered True for a string with a "T"
\* that fromisoformat rejects.
C18_Witness ==
    /\ ut_result.applied
    /\ Has(ut_tender, "close_at")
    /\ ut_tender.close_at.kind = "garbage_T"
    /\ ut_result.active

\* C19: over mark_tenders_sent calls the sent set of every e-mail only grows,
\* and the stored list holds each identity once.
C19_LedgerMonotone ==
    /\ [](\A e \in DOMAIN et_data : Len(et_data[e]) = Cardinality(Range(et_data[e])))
    /\ [][\A e \in Emails :
            get_sent_tenders(et_data, e) \subseteq get_sent_tenders(et_data', e)]_vars

\* C19 witness: a list with a duplicate, one identity of which the entry
\* already held, has been merged into an entry.
C19_Witness ==
    /\ et_last.email = "a@x.com"
    /\ et_last.tender_ids = <<"2", "2">>
    /\ get_sent_tenders(et_last.before, "a@x.com") = {"1"}
    /\ et_data["a@x.com"] = <<"1", "2">>

\* C20: after mark_tenders_sent(email, ids) the sent set of email is the union
\* of the set before and ids, the entry exists, the entries of the others are
\* as before, and a second call with the same arguments changes no sent set.
C20_MarkSentIdempotentUnion ==
    /\ [](et_last.email # "none" =>
            /\ get_sent_tenders(et_data, et_last.email) =
                  get_sent_tenders(et_last.before, et_last.email)
                      \cup Range(et_last.tender_ids)
            /\ ~is_new_recipient(et_data, et_last.email)
            /\ DOMAIN et_data = DOMAIN et_last.before \cup {et_last.email}
            /\ \A e \in DOMAIN et_last.before \ {et_last.email} :
                  et_data[e] = et_last.before[e]
            /\ et_last.repeated => et_data = et_last.before)
    /\ [][(et_calls' = et_calls + 1 /\ et_last'.repeated) =>
              \A e \in Emails : get_sent_tenders(et_data', e) = get_sent_tenders(et_data, e)]_vars

\* C20 witness: the same call was made twice on an e-mail that had no entry,
\* while another recipient's entry stayed as it was.
C20_Witness ==
    /\ et_last.repeated
    /\ et_last.email = "b@x.com"
    /\ et_last.tender_ids = <<"2", "1">>
    /\ et_data["b@x.com"] = <<"1", "2">>
    /\ "old@x.com" \in DOMAIN et_data

\* A non-empty string, as a value of the record encoding.
NonEmptyString(v) == v.type = "str" /\ v.val # <<>>

\* C29: for every record, whatever its category fields hold, get_tender_category
\* returns a non-empty string.
C29_CategoryIsNonEmptyString ==
    ut_result.applied => NonEmptyString(ut_result.category)

\* The chain the claim describes: the nested object's title when there is one,
\* otherwise category_name, category, the id placeholder, "Unknown".
FallbackChain(t) ==
    IF Has(t, "procurement_category") /\ IsDict(t.procurement_category)
       /\ t.procurement_category.has_title
    THEN t.procurement_category.title
    ELSE IF Has(t, "category_name") THEN t.category_name
    ELSE IF Has(t, "category") THEN t.category
    ELSE IF Has(t, "procurement_category_id") THEN CategoryNo(t.procurement_category_id)
    ELSE Unknown

\* C30: get_tender_category follows the fallback chain in order; a nested
\* object without a title falls through to the legacy fields, the placeholder
\* and only then to "Unknown".
C30_FallbackChainInOrder ==
    ut_result.applied => ut_result.category = FallbackChain(ut_tender)

\* A tracking file that is not a ledger: not JSON, or JSON without "recipients".
Corrupted(file) == file.kind \in {"invalid", "no_recipients"}

\* C26: an EmailTracker constructed from a corrupted tracking file behaves as
\* one with an empty ledger: no operation on it raises, and before anything is
\* marked every recipient asked about is new and has an empty sent set.
C26_CorruptLedgerIsEmpty ==
    Corrupted(et_file) =>
        /\ ~et_query.raised
        /\ (et_query.email # "none" /\ et_calls = 0) =>
               et_query.is_new /\ et_query.sent = {}

\* A subscription that passes validation and whose schedule croniter_match
\* raises on.
Unschedulable(j) ==
    /\ configFile[j].kind = "object"
    /\ validate_job_config(configFile[j].job)
    /\ ~CronValid(configFile[j].job.schedule)

\* C21: a subscription whose schedule cannot be evaluated is never due: it is
\* in no due list, process_job is not called on it, and its status, its
\* seen-set and the history stay without any trace of it.
C21_SchedulingFailsClosed ==
    /\ [](\A j \in Jobs :
            Unschedulable(j) =>
                /\ \A p \in Procs : \A i \in 1..Len(due[p]) : due[p][i] # j
                /\ last.job # j
                /\ statusFile[j] = NoStatus
                /\ \A i \in 1..Len(history) : history[i].job_id # j)
    /\ [][\A j \in Jobs : Unschedulable(j) => seenFile'[j] = seenFile[j]]_vars

\* C21 witness: an invocation has ended in which the other subscription was
\* due and processed while this one's schedule could not be evaluated.
C21_Witness ==
    /\ Unschedulable("j1")
    /\ last.job = "j2"
    /\ Len(history) = 1
    /\ pc["p1"] = "done"

\* An object with an id, a schedule and at least one recipient.
Complete(job) ==
    /\ "id" \in DOMAIN job
    /\ "schedule" \in DOMAIN job
    /\ "recipients" \in DOMAIN job
    /\ Len(job.recipients) > 0

\* C22: the object of every process_job call, and of every entry of a due
\* list, has an id, a schedule and a non-empty recipients list; a subscription
\* file without one of them is never processed.
C22_ProcessedSubscriptionsAreComplete ==
    /\ last.job # "none" => Complete(last.config)
    /\ \A p \in Procs : \A i \in 1..Len(due[p]) :
          configFile[due[p][i]].kind = "object" /\ Complete(configFile[due[p][i]].job)
    /\ \A j \in Jobs :
          (configFile[j].kind = "object" /\ ~Complete(configFile[j].job)) =>
              /\ last.job # j
              /\ statusFile[j] = NoStatus
              /\ \A i \in 1..Len(history) : history[i].job_id # j

\* C22 witness: an invocation has ended that processed the first subscription
\* while the file of the second one listed no recipient.
C22_Witness ==
    /\ configFile["j2"] = ConfigObject(EmptyRecipients)
    /\ last.job = "j1"
    /\ Complete(last.config)
    /\ pc["p1"] = "done"

\* C23: when load_job_configs has run, no subscription file is left that fails
\* the required-field validation: each file is a complete object (as it was,
\* or repaired under the same id) or has been deleted.
C23_InvalidRepairedOrDeleted ==
    [][\A p \in Procs :
          (pc[p] = "load_jobs" /\ pc'[p] # "load_jobs") =>
              \A j \in Jobs :
                  \/ configFile'[j].kind = "absent"
                  \/ configFile'[j].kind = "object" /\ Complete(configFile'[j].job)
                                                    /\ configFile'[j].job.id = j]_vars

\* C24: a subscription file that load_job_configs sends to repair is not among
\* the due jobs of that invocation; the repaired file is an object with the
\* file stem as id, the placeholder recipient and schedule, and it passes
\* validation and schedule evaluation, so a later invocation can process it.
C24_RepairedExcludedThenEligible ==
    [][\A p \in Procs :
          (pc[p] = "load_jobs" /\ pc'[p] # "load_jobs") =>
              \A j \in Jobs :
                  configFile[j].kind = "corrupt" =>
                      /\ \A i \in 1..Len(due'[p]) : due'[p][i] # j
                      /\ configFile'[j].kind \in {"object", "absent"}
                      /\ configFile'[j].kind = "object" =>
                            /\ configFile'[j].job.id = j
                            /\ Complete(configFile'[j].job)
                            /\ validate_job_config(configFile'[j].job)
                            /\ configFile'[j].job.recipients = <<"repair@needed.com">>
                            /\ configFile'[j].job.schedule = "*/30 * * * *"
                            /\ CronValid(configFile'[j].job.schedule)]_vars

\* C24 witness: a later invocation has processed the first subscription with
\* the placeholder recipient and schedule the repair gave it.
C24_Witness ==
    /\ last.job = "j1"
    /\ last.config.recipients = <<"repair@needed.com">>
    /\ last.config.schedule = "*/30 * * * *"
    /\ configFile["j1"] = ConfigObject(RepairData("j1"))
    /\ runs >= 2

\* C25: a process_job call on a subscription whose seen-set file is corrupt
\* reads the seen-set as empty, and when it returns the file holds a valid
\* seen-set, the identities of the records of the tick.
C25_CorruptSeenSetRewritten ==
    [][\A p \in Procs :
          (Returned(p) /\ ~seenFile[last'.job].valid) =>
              /\ last'.seen = {}
              /\ seenFile'[last'.job] = SeenFile(Ids(last'.data))]_vars

\* What the claim calls a cache without data: missing, corrupt, or without
\* records.
WithoutData(file) == ~file.exists \/ file.corrupt \/ file.data = {}

\* The steps of release_lock and of the end of main().
Leaving(p) == pc[p] \in {"release_unlock", "release_exists", "release_unlink", "main_finally"}

\* C27: when the cache is missing, corrupt or holds no record, load_cache_data
\* yields None or the empty list and run() goes straight to release_lock; an
\* invocation is past that point only with records in hand, the files of
\* seen-sets, ledger, status and history and the sink change only in steps of
\* an invocation that is past it, and release_lock gives the flock back.
C27_NoDataNoProcessing ==
    /\ [](\A p \in Procs :
            pc[p] \in {"load_jobs", "process_job", "cleanup", "housekeeping"} =>
                ~all_data[p].none /\ all_data[p].data # {})
    /\ [][\A p \in Procs :
            /\ (pc[p] = "load_cache" /\ pc'[p] # "load_cache") =>
                  /\ all_data'[p].none = (~cacheFile.exists \/ cacheFile.corrupt)
                  /\ WithoutData(cacheFile) = (pc'[p] = "release_unlock")
                  /\ WithoutData(cacheFile) = (pc'[p] # "load_jobs")
            /\ (pc[p] = "release_unlock" /\ pc'[p] # "release_unlock") =>
                  \A i \in Inodes : flock'[i] # p]_vars
    /\ [][(\A p \in Procs : pc[p] \notin {"process_job", "housekeeping"}) =>
              UNCHANGED <<seenFile, ledgerFile, statusFile, history, sent>>]_vars

\* C27 witness: an invocation found a corrupt cache, went to release_lock with
\* nothing written, and is finished.
C27_Witness ==
    /\ cacheFile = CorruptCache
    /\ pc["p1"] = "done"
    /\ acquired["p1"] = "yes"
    /\ history = <<>>
    /\ statusFile = [j \in Jobs |-> NoStatus]
    /\ \A i \in Inodes : flock[i] = NoProc

\* The recipients of the subscription files that are complete objects.
ActiveNow == UNION {Range(configFile[j].job.recipients) :
                       j \in {k \in Jobs : configFile[k].kind = "object"
                                           /\ Complete(configFile[k].job)}}

\* C28: cleanup_old_files removes from the ledger exactly the entries of the
\* recipients that no valid subscription lists, keeps the other entries as
\* they are and saves the ledger when it removed something; no other step of
\* run() removes a ledger entry, and cleanup_old_files is reached only from
\* the end of a batch whose minute is a multiple of ten.
C28_PruneExactlyOrphans ==
    [][/\ \A p \in Procs :
            /\ (pc[p] = "housekeeping" /\ pc'[p] # "housekeeping") =>
                  /\ DOMAIN tracker'[p] = DOMAIN tracker[p] \cap ActiveNow
                  /\ \A e \in DOMAIN tracker'[p] : tracker'[p][e] = tracker[p][e]
                  /\ ledgerFile' = IF DOMAIN tracker[p] \subseteq ActiveNow
                                   THEN ledgerFile ELSE tracker'[p]
            /\ pc[p] \notin {"housekeeping", "main_finally"} =>
                  DOMAIN tracker[p] \subseteq DOMAIN tracker'[p]
            /\ (pc[p] # "housekeeping" /\ pc'[p] = "housekeeping") => pc[p] = "cleanup"
       /\ (\A p \in Procs : pc[p] # "housekeeping") =>
              DOMAIN ledgerFile \subseteq DOMAIN ledgerFile']_vars

\* C28 witness: housekeeping has removed the entry of a recipient no
\* subscription lists and kept the entry of one that is listed; the next
\* invocation has loaded the pruned ledger and processed its batch.
C28_Witness ==
    /\ DOMAIN ledgerFile = {"a@x.com"}
    /\ ledgerFile["a@x.com"] = <<"1">>
    /\ "a@x.com" \in ActiveNow
    /\ runs = 2
    /\ pc["p1"] = "release_unlock"
    /\ Len(history) >= 2
    /\ tracker["p1"] = ledgerFile

\* The matching rule the claim gives: no allowed classes, or some allowed
\* class is a substring of the category, both in lower case.
MatchesAsClaimed(category, allowed_classes) ==
    \/ allowed_classes = {}
    \/ /\ category.type = "str"
       /\ \E c \in allowed_classes : IsSubstr(LowerStr(c), LowerStr(category.val))

\* C31: the class filter answers for every record, with true when there are no
\* allowed classes and otherwise with whether some allowed class is a
\* case-insensitive substring of the record's category; a record that does
\* not match is in neither candidate set.
C31_ClassFilterDecidesEveryRecord ==
    ut_result.applied =>
        /\ ~ut_result.matches.raised
        /\ ut_result.matches.value
              = MatchesAsClaimed(ut_result.category, ut_result.allowed_classes)
        /\ ~ut_result.matches.value =>
              ut_result.regular = {} /\ ut_result.catch_up = {}

\* A record without an identity: no "id" key, or null or the empty string
\* under it.
WithoutIdentity(t) == ~Has(t, "id") \/ t.id \in {"", "null"}

\* C32: a record without an identity is in no candidate set, and contributes
\* no id to the seen-set or to the ledger.
C32_RecordWithoutIdentityDropped ==
    (ut_result.applied /\ WithoutIdentity(ut_tender)) =>
        /\ ut_result.regular = {}
        /\ ut_result.catch_up = {}
        /\ ut_result.seen_ids = {}
        /\ ut_result.tender_ids = {}

\* C35: the id of every candidate record is among the ids written to the
\* seen-set and among the ids marked in the ledger for the candidates.
C35_CandidateIdsReachSeenSetAndLedger ==
    ut_result.applied =>
        \A i \in ut_result.regular \cup ut_result.catch_up :
            i \in ut_result.seen_ids /\ i \in ut_result.tender_ids

\* Contents a status file can have when process_job starts: missing, not
\* JSON, left by a failed run, left by a manual test.
StatusChoices ==
    {NoStatus, CorruptStatus,
     [status |-> "error", last_run_error |-> "NameError", last_run_success |-> FALSE],
     [status |-> "idle", last_run |-> "null", next_run |-> "null", last_test |-> "now"]}

\* What a process_job call selects, sends and writes apart from the status.
Observable(r) ==
    [result |-> r.result, candidates |-> r.candidates, is_catch_up |-> r.is_catch_up,
     email_sent |-> r.email_sent, L |-> r.L, saved |-> r.saved,
     seen |-> r.seen, seen_saved |-> r.seen_saved]

\* C33: the status file is observability only: whatever the status file of
\* the subscription held when process_job started (nothing, something
\* unreadable, the trace of an earlier run or test), the call would have
\* selected, sent and written the same; and what a call writes to the
\* seen-set and to the ledger file is what the call yielded.
C33_StatusIsObservabilityOnly ==
    /\ [](last.job # "none" =>
            \A s \in StatusChoices : \A o \in SendOutcomes :
                last.outcome \in {o, "not_called"} =>
                    Observable(process_job(last.config, last.data, last.seen, last.L,
                                           s, last.mode, o)) = Observable(last.r))
    /\ [][\A p \in Procs : Returned(p) =>
             /\ seenFile' = IF last'.r.seen_saved
                            THEN [seenFile EXCEPT ![last'.job] = SeenFile(last'.r.seen)]
                            ELSE seenFile
             /\ ledgerFile' = IF last'.r.saved THEN last'.r.L ELSE ledgerFile]_vars

\* C33 witness: process_job has run on a subscription whose status file is
\* not JSON, and on one whose status file a manual test had written.
C33_Witness ==
    /\ Len(history) >= 2
    /\ \E i, k \in 1..Len(history) : history[i].job_id = "j1" /\ history[k].job_id = "j2"
    /\ statusFile["j1"] = CorruptStatus
    /\ dry_run.job = "j2"
    /\ "last_test" \in DOMAIN statusFile["j2"]
    /\ statusFile["j2"].status = "error"

\* C34: a process_job call reads the seen-set file of its own subscription
\* and leaves the seen-set file and the status file of every other
\* subscription as they are.
C34_OnlyOwnSeenSetAndStatus ==
    [][\A p \in Procs : Returned(p) =>
          /\ last'.seen = load_job_seen_cache(seenFile[last'.job])
          /\ \A j \in Jobs \ {last'.job} :
                seenFile'[j] = seenFile[j] /\ statusFile'[j] = statusFile[j]]_vars

\* C34 witness: the second subscription has been processed while the first
\* one, deployed and not due, keeps its unreadable seen-set file and has no
\* status file.
C34_Witness ==
    /\ last.job = "j2"
    /\ statusFile["j2"] # NoStatus
    /\ configFile["j1"] = ConfigObject(JobConfig("j1"))
    /\ seenFile["j1"] = CorruptSeen
    /\ seenFile["j2"] = SeenFile({"1"})
    /\ last.seen = {"1"}
    /\ statusFile["j1"] = NoStatus

\* C38: a manual test of a subscription from the dashboard delivers nothing
\* and leaves the subscription's seen-set file, the ledger file and the
\* deliveries as they were.
C38_DryRunLeavesSeenSetAndLedger ==
    /\ [](dry_run.job # "none" =>
            dry_run.mail = {} /\ dry_run.seen_after = dry_run.seen_before)
    /\ [][tests' # tests =>
             seenFile' = seenFile /\ ledgerFile' = ledgerFile /\ sent' = sent]_vars

\* The cache file holds a complete record list.
CompleteCache(file) == file.exists /\ ~file.corrupt

\* C39: the harvester replaces the cache atomically: once the cache file
\* holds a complete record list, every step leaves a complete record list
\* under that path, whether a save succeeds or fails.
C39_CacheReplacedAtomically ==
    [][CompleteCache(cacheFile) => CompleteCache(cacheFile')]_vars

\* A process_job call of p returns that is not the first of its tick, the call
\* before it sent successfully, the mode is all_active, and every recipient of
\* this call's subscription that was new before the earlier call is listed by
\* the earlier call's subscription: at least one is.
SecondAfterSend(p) ==
    /\ Returned(p)
    /\ batch[p].results # <<>>
    /\ \A q \in Procs \ {p} : pc[q] \in {"new", "done"}
    /\ last.r.email_sent
    /\ last'.mode = "all_active"
    /\ \E e \in Range(last'.config.recipients) \cap Range(last.config.recipients) :
          is_new_recipient(last.L, e)
    /\ \A e \in Range(last'.config.recipients) :
          e \in Range(last.config.recipients) \/ ~is_new_recipient(last.L, e)

\* C36: within a tick the second subscription works on the ledger the first
\* one left: a recipient both list, new at the start of the tick, is no longer
\* new after the first one's successful send, and the second one runs in
\* regular mode on the records outside its own seen-set.
C36_LedgerSharedWithinTick ==
    [][\A p \in Procs :
          SecondAfterSend(p) =>
              /\ last'.L = last.r.L
              /\ ~last'.r.is_catch_up
              /\ last'.r.candidates =
                    {TenderId(t) : t \in FreshTenders(last'.data, last'.config, last'.seen)}]_vars

\* The recipients of the subscription of a call that have no ledger entry in L.
NewRecipients(config, L) == {e \in Range(config.recipients) : is_new_recipient(L, e)}

\* C37: under all_active every process_job call on a subscription with a new
\* recipient is a catch-up run; when its send does not succeed the new
\* recipients stay new, so that the next due tick repeats it, and when it
\* succeeds no recipient of the subscription is new any more; a call gives a
\* recipient a ledger entry only by a successful send to that recipient.
C37_NewUntilFirstSuccessfulSend ==
    /\ [][\A p \in Procs :
            (Returned(p) /\ last'.mode = "all_active"
                         /\ NewRecipients(last'.config, last'.L) # {}) =>
                /\ last'.r.is_catch_up
                /\ ~last'.r.email_sent =>
                      NewRecipients(last'.config, last'.r.L)
                          = NewRecipients(last'.config, last'.L)
                /\ last'.r.email_sent => NewRecipients(last'.config, last'.r.L) = {}]_vars
    /\ [][\A p \in Procs : Returned(p) =>
            \A e \in Emails :
                (e \notin DOMAIN last'.L /\ e \in DOMAIN last'.r.L) =>
                    last'.r.email_sent /\ e \in Range(last'.config.recipients)]_vars

\* No element occurs twice in the sequence.
Distinct(seq) == \A i, k \in 1..Len(seq) : seq[i] = seq[k] => i = k

\* C40: every tick that acquired the lock ends with the lock released and the
\* process finished; while its batch runs, the jobs processed so far followed
\* by the jobs still queued are the due jobs, each once; every process_job
\* call takes the next queued job and the record set load_cache_data returned
\* at the start of this tick, whatever has happened to the cache file since;
\* and the batch is complete only when every due job has been processed.
C40_EveryTickTerminates ==
    /\ \A p \in Procs :
          (acquired[p] = "yes" /\ pc[p] # "done")
              ~> (pc[p] = "done" /\ \A i \in Inodes : flock[i] # p)
    /\ [](\A p \in Procs :
            pc[p] \in {"process_job", "cleanup"} =>
                /\ Distinct(batch[p].jobs \o due[p])
                /\ Len(batch[p].jobs \o due[p]) = batch[p].due_count
                /\ pc[p] = "cleanup" => Len(batch[p].jobs) = batch[p].due_count)
    /\ [][\A p \in Procs :
            Returned(p) =>
                /\ last'.job = Head(due[p])
                /\ batch'[p].jobs \o due'[p] = batch[p].jobs \o due[p]
                /\ last'.data = all_data[p].data
                /\ all_data'[p] = all_data[p]]_vars
    /\ [][\A p \in Procs :
            pc[p] \in {"load_jobs", "process_job", "cleanup", "housekeeping"} =>
                all_data'[p] = all_data[p]]_vars

\* C40 witness: a tick has processed both due subscriptions, one after the
\* other, on the record set it loaded, while the harvester was replacing the
\* cache file, and has finished with the lock released.
C40_Witness ==
    /\ runs = 1
    /\ pc["p1"] = "done"
    /\ acquired["p1"] = "yes"
    /\ \A i \in Inodes : flock[i] = NoProc
    /\ Len(history) = 2
    /\ history[1].job_id = "j1" /\ history[2].job_id = "j2"
    /\ last.data = {T1, T2}
    /\ tempFile = Cache({T1, T2, T3})
    /\ cacheFile = NoCache

====
